---- MODULE Spec2Model ----
(***************************************************************************)
(* Newlanka HRM System (Tauri backend): the users and employees tables,    *)
(* the audit log, the session holder and the command handlers that act on  *)
(* them.  Synchronous Tauri commands run one at a time, so each handler is *)
(* one atomic action.                                                       *)
(***************************************************************************)
EXTENDS Integers, Sequences, FiniteSets, TLC

VARIABLES
    schema,        \* what the open database file provides (tables, columns)
    users,         \* users table: a set of rows, one per id
    user_seq,      \* AUTOINCREMENT high-water mark of users.id
    employees,     \* employees table: a set of rows, one per epf_number
    audit_logs,    \* audit_logs table rows in insertion order
    current_user,  \* CurrentUser(Mutex<Option<UserSession>>): <<>> or <<session>>
    last,          \* the last command invoked and what it returned
    files,         \* the files beside the open connection: export, backup, replaced database
    pc,            \* per invoking thread: the command it runs and the step it is at
    lock           \* holder of each Mutex (DbConnection, CurrentUser), 0 when free

vars == <<schema, users, user_seq, employees, audit_logs, current_user, last,
          files, pc, lock>>

----------------------------------------------------------------------------
(* Bounds *)

\* users.id values the AUTOINCREMENT counter may hand out
MaxUserId == 2
\* rows the audit_logs table may hold
MaxAudit == 2
\* threads invoking commands at the same time
MaxThreads == 2

----------------------------------------------------------------------------
(* Values *)

\* Option<T>: None is the empty sequence, Some(x) the one-element sequence
None == <<>>
Some(x) == <<x>>

NULL == "NULL"
\* CURRENT_TIMESTAMP, one opaque instant
TS == "CURRENT_TIMESTAMP"
Ok == "Ok"

Usernames == {"admin", "bob"}
Passwords == {"admin123", "pw"}
RequestRoles == {"admin", "viewer", "superuser"}

----------------------------------------------------------------------------
(* models.rs: UserPermissions *)

default_permissions ==
    [can_view_employees |-> TRUE, can_add_employees |-> FALSE,
     can_edit_employees |-> FALSE, can_delete_employees |-> FALSE,
     can_manage_users |-> FALSE, can_view_all_departments |-> FALSE,
     can_export_data |-> FALSE, can_view_reports |-> FALSE,
     can_manage_settings |-> FALSE, can_backup_database |-> FALSE,
     can_view_audit_logs |-> FALSE]

admin ==
    [can_view_employees |-> TRUE, can_add_employees |-> TRUE,
     can_edit_employees |-> TRUE, can_delete_employees |-> TRUE,
     can_manage_users |-> TRUE, can_view_all_departments |-> TRUE,
     can_export_data |-> TRUE, can_view_reports |-> TRUE,
     can_manage_settings |-> TRUE, can_backup_database |-> TRUE,
     can_view_audit_logs |-> TRUE]

hr_manager ==
    [can_view_employees |-> TRUE, can_add_employees |-> TRUE,
     can_edit_employees |-> TRUE, can_delete_employees |-> TRUE,
     can_manage_users |-> FALSE, can_view_all_departments |-> TRUE,
     can_export_data |-> TRUE, can_view_reports |-> TRUE,
     can_manage_settings |-> FALSE, can_backup_database |-> FALSE,
     can_view_audit_logs |-> FALSE]

hr_staff ==
    [can_view_employees |-> TRUE, can_add_employees |-> TRUE,
     can_edit_employees |-> FALSE, can_delete_employees |-> FALSE,
     can_manage_users |-> FALSE, can_view_all_departments |-> FALSE,
     can_export_data |-> FALSE, can_view_reports |-> FALSE,
     can_manage_settings |-> FALSE, can_backup_database |-> FALSE,
     can_view_audit_logs |-> FALSE]

viewer ==
    [can_view_employees |-> TRUE, can_add_employees |-> FALSE,
     can_edit_employees |-> FALSE, can_delete_employees |-> FALSE,
     can_manage_users |-> FALSE, can_view_all_departments |-> FALSE,
     can_export_data |-> FALSE, can_view_reports |-> FALSE,
     can_manage_settings |-> FALSE, can_backup_database |-> FALSE,
     can_view_audit_logs |-> FALSE]

\* from_role with the hr_staff arm returning the hr_manager set
from_role_staff_as_manager(role) ==
    CASE role = "admin" -> admin
      [] role = "hr_manager" -> hr_manager
      [] role = "hr_staff" -> hr_manager
      [] role = "viewer" -> viewer
      [] OTHER -> default_permissions

from_role(role) ==
    CASE role = "admin" -> admin
      [] role = "hr_manager" -> hr_manager
      [] role = "hr_staff" -> hr_staff
      [] role = "viewer" -> viewer
      [] OTHER -> default_permissions

\* Option<UserPermissions> of a request: the explicit set, or the role's
permissions_or_role(permissions, role) ==
    IF permissions = None THEN from_role(role) ELSE permissions[1]

----------------------------------------------------------------------------
(* lib.rs: password hashing *)

\* DefaultHasher is SipHash-1-3 with both keys zero over the bytes written.
\* A u64 is kept as four 16-bit limbs, least significant first.
Limb == 65536

\* the bytes of the strings that are hashed, matched or ordered (str::as_bytes)
as_bytes(s) ==
    CASE s = "admin123" -> <<97, 100, 109, 105, 110, 49, 50, 51>>
      [] s = "admin124" -> <<97, 100, 109, 105, 110, 49, 50, 52>>
      [] s = "pw" -> <<112, 119>>
      [] s = "wp" -> <<119, 112>>
      [] s = "pwpw" -> <<112, 119, 112, 119>>
      [] s = "hrm_salt_" -> <<104, 114, 109, 95, 115, 97, 108, 116, 95>>
      [] s = "" -> << >>
      [] s = "E1" -> <<69, 49>>
      [] s = "E2" -> <<69, 50>>
      [] s = "E10" -> <<69, 49, 48>>
      [] s = "1" -> <<49>>
      [] s = "e1" -> <<101, 49>>
      [] s = "_" -> <<95>>

\* a u64 as its four limbs, and the arguments of Hasher::write
Words == [1..4 -> 0..(Limb - 1)]
Bytes == Seq(0..255)

\* ^ on one limb, bit by bit from the lowest
bitxor[a \in 0..(Limb - 1), b \in 0..(Limb - 1)] ==
    IF a = 0 THEN b
    ELSE IF b = 0 THEN a
    ELSE ((a + b) % 2) + 2 * bitxor[a \div 2, b \div 2]

xor[x \in Words, y \in Words] ==
    <<bitxor[x[1], y[1]], bitxor[x[2], y[2]], bitxor[x[3], y[3]], bitxor[x[4], y[4]]>>

wrapping_add[x \in Words, y \in Words] ==
    LET s1 == x[1] + y[1]
        s2 == x[2] + y[2] + (s1 \div Limb)
        s3 == x[3] + y[3] + (s2 \div Limb)
        s4 == x[4] + y[4] + (s3 \div Limb)
    IN <<s1 % Limb, s2 % Limb, s3 % Limb, s4 % Limb>>

rotate_left[x \in Words, b \in 0..63] ==
    LET q == b \div 16
        r == b % 16
        limb(i) == ((x[((i - q) % 4) + 1] * (2 ^ r)) % Limb)
                   + (x[((i - q - 1) % 4) + 1] \div (2 ^ (16 - r)))
    IN <<limb(0), limb(1), limb(2), limb(3)>>

\* up to eight bytes read as a little-endian u64, missing bytes zero
u8to64_le[bytes \in Bytes] ==
    LET byte(i) == IF i <= Len(bytes) THEN bytes[i] ELSE 0 IN
    <<byte(1) + 256 * byte(2), byte(3) + 256 * byte(4),
      byte(5) + 256 * byte(6), byte(7) + 256 * byte(8)>>

\* the hasher's four u64 lanes v0..v3
Lanes == [1..4 -> Words]

\* one SipRound (the compress! macro), a line of the macro at a time
compress_v0_v1[v \in Lanes] ==
    LET v0 == wrapping_add[v[1], v[2]] IN
    <<rotate_left[v0, 32], xor[rotate_left[v[2], 13], v0], v[3], v[4]>>

compress_v2_v3[v \in Lanes] ==
    LET v2 == wrapping_add[v[3], v[4]] IN
    <<v[1], v[2], v2, xor[rotate_left[v[4], 16], v2]>>

compress_v0_v3[v \in Lanes] ==
    LET v0 == wrapping_add[v[1], v[4]] IN
    <<v0, v[2], v[3], xor[rotate_left[v[4], 21], v0]>>

compress_v2_v1[v \in Lanes] ==
    LET v2 == wrapping_add[v[3], v[2]] IN
    <<v[1], xor[rotate_left[v[2], 17], v2], rotate_left[v2, 32], v[4]>>

compress[v \in Lanes] ==
    compress_v2_v1[compress_v0_v3[compress_v2_v3[compress_v0_v1[v]]]]

\* Sip13Rounds: one round per block, three at the end
c_rounds[v \in Lanes] == compress[v]
d_rounds[v \in Lanes] == compress[compress[compress[v]]]

\* the hasher: the lanes, the bytes not yet absorbed, the bytes written
Hashers == [v : Lanes, tail : Bytes, length : Nat]

\* DefaultHasher::new(): k0 = k1 = 0
new_hasher ==
    [v |-> << <<25973, 28787, 28005, 29551>>,    \* 0x736f6d6570736575
              <<28525, 28260, 29281, 25711>>,    \* 0x646f72616e646f6d
              <<29281, 28261, 26469, 27769>>,    \* 0x6c7967656e657261
              <<25971, 31092, 25698, 29797>> >>, \* 0x7465646279746573
     tail |-> << >>, length |-> 0]

\* state.v0 ^= m
xor_v0[v \in Lanes, m \in Words] == <<xor[v[1], m], v[2], v[3], v[4]>>

\* one 8-byte block m absorbed: v3 ^= m; c_rounds; v0 ^= m
absorb[v \in Lanes, m \in Words] ==
    xor_v0[c_rounds[<<v[1], v[2], v[3], xor[v[4], m]>>], m]

\* Hasher::write: whole 8-byte blocks are absorbed, the rest waits in tail
write[state \in Hashers, bytes \in Bytes] ==
    IF Len(state.tail) + Len(bytes) < 8
    THEN [state EXCEPT !.tail = state.tail \o bytes,
                       !.length = state.length + Len(bytes)]
    ELSE LET take == 8 - Len(state.tail) IN
         write[[v |-> absorb[state.v, u8to64_le[state.tail \o SubSeq(bytes, 1, take)]],
                tail |-> << >>,
                length |-> state.length + take],
               SubSeq(bytes, take + 1, Len(bytes))]

\* impl Hash for str: the bytes, then 0xff
write_str[state \in Hashers, s \in STRING] == write[write[state, as_bytes(s)], <<255>>]

\* (length << 56) | tail: the last block
last_block[tail \in Bytes, length \in Nat] ==
    [u8to64_le[tail] EXCEPT ![4] = @ + 256 * (length % 256)]

\* state.v0 ^ state.v1 ^ state.v2 ^ state.v3
xor_lanes[v \in Lanes] == xor[xor[v[1], v[2]], xor[v[3], v[4]]]

\* state.v2 ^= 0xff; d_rounds; the lanes folded
finalize[v \in Lanes] ==
    xor_lanes[d_rounds[<<v[1], v[2], xor[v[3], <<255, 0, 0, 0>>], v[4]>>]]

\* Hasher::finish: the last block is absorbed like any other, then finalized
finish[state \in Hashers] ==
    finalize[absorb[state.v, last_block[state.tail, state.length]]]

\* format!("{:x}", u64): lower-case hex digits, no leading zeros
strip_zeros[digits \in Seq(0..15)] ==
    IF Len(digits) > 1 /\ Head(digits) = 0 THEN strip_zeros[Tail(digits)]
    ELSE digits

format_x[w \in Words] ==
    LET nibbles(l) == <<l \div 4096, (l \div 256) % 16, (l \div 16) % 16, l % 16>>
        digit == <<"0", "1", "2", "3", "4", "5", "6", "7",
                   "8", "9", "a", "b", "c", "d", "e", "f">>
        digits == strip_zeros[nibbles(w[4]) \o nibbles(w[3]) \o nibbles(w[2])
                              \o nibbles(w[1])]
    IN [i \in 1..Len(digits) |-> digit[digits[i] + 1]]

\* hash_password's body: the password, the salt and the password again are
\* written to a new hasher, and the digest is printed in hex
digest[password \in STRING] ==
    format_x[finish[write_str[write_str[write_str[new_hasher, password],
                                        "hrm_salt_"], password]]]

\* the digest of each password that occurs, computed once
hashed ==
    [password \in {"admin123", "admin124", "pw", "wp", "pwpw"} |-> digest[password]]

\* verify_password that accepts every password
verify_password_any(password, hash) == TRUE

hash_password(password) == hashed[password]

verify_password(password, hash) == hash_password(password) = hash

----------------------------------------------------------------------------
(* lib.rs: init_db and the database file it opens *)

\* the tables and columns init_db itself creates in an empty file: the users
\* table has nine permission columns and there is no audit_logs table
FreshSchema ==
    [users_columns |-> {}, tables |-> {"employees", "users"},
     column_default |-> FALSE]

\* a database file that already holds the users table with the two further
\* permission columns and the audit_logs table (CREATE TABLE IF NOT EXISTS
\* keeps them); the two columns are declared like the others, DEFAULT 0
ExistingSchema ==
    [users_columns |-> {"can_backup_database", "can_view_audit_logs"},
     tables |-> {"employees", "users", "audit_logs"},
     column_default |-> FALSE]

HasColumn(s, c) == c \in s.users_columns
HasTable(s, t) == t \in s.tables

\* the row init_db inserts when the users table is empty, after its
\* UPDATE ... WHERE role='admin'; the two columns it does not name take the
\* column default (a placeholder FALSE when the column does not exist)
BootstrapAdmin(s) ==
    [id |-> 1,
     username |-> "admin",
     password_hash |-> hash_password("admin123"),
     full_name |-> "System Administrator",
     role |-> "admin",
     department_access |-> NULL,
     is_active |-> TRUE,
     permissions |-> [admin EXCEPT
         !.can_backup_database = s.column_default,
         !.can_view_audit_logs = s.column_default],
     last_login |-> NULL]

init_db(s) ==
    /\ schema = s
    /\ users = {BootstrapAdmin(s)}
    /\ user_seq = 1
    /\ employees = {}

\* no export file, no backup file, the database file as the connection wrote it
NoFiles == [F |-> None, backup |-> None, replaced |-> None]

\* the threads that may invoke commands, none of them inside one
Threads == 1..MaxThreads
Idle == [op |-> "idle", at |-> 0]

\* main.rs setup: init_db, then an empty session holder
Init ==
    /\ \E s \in {FreshSchema, ExistingSchema} : init_db(s)
    /\ audit_logs = << >>
    /\ current_user = None
    /\ last = [op |-> "main", result |-> Ok, value |-> None]
    /\ files = NoFiles
    /\ pc = [t \in Threads |-> Idle]
    /\ lock = [db |-> 0, current_user |-> 0]

----------------------------------------------------------------------------
(* Command results *)

\* a command returns Err(message) and has changed nothing
Fail(op, message) ==
    /\ last' = [op |-> op, result |-> message, value |-> None]
    /\ UNCHANGED <<files, pc, lock, schema, users, user_seq, employees, audit_logs, current_user>>

UserById(id) == {u \in users : u.id = id}
UserByName(name) == {u \in users : u.username = name}

\* UPDATE users SET ... WHERE id = ?: each matching row replaced by set[row], zero rows allowed
UpdateUserWhereId(id, set) ==
    {IF u.id = id THEN set[u] ELSE u : u \in users}

----------------------------------------------------------------------------
(* auth_commands.rs *)

\* the SELECT of login names both further permission columns
LoginQueryPrepares(s) ==
    HasColumn(s, "can_backup_database") /\ HasColumn(s, "can_view_audit_logs")

\* the session built with the id of the row after the one read
UserSession_next_id(u) ==
    [user_id |-> u.id + 1, username |-> u.username, full_name |-> u.full_name,
     role |-> u.role, department_access |-> u.department_access,
     permissions |-> u.permissions]

UserSession(u) ==
    [user_id |-> u.id, username |-> u.username, full_name |-> u.full_name,
     role |-> u.role, department_access |-> u.department_access,
     permissions |-> u.permissions]

login(request) ==
    LET found == UserByName(request.username) IN
    IF ~LoginQueryPrepares(schema) \/ found = {}
    THEN Fail("login", "Invalid username or password")
    ELSE LET u == CHOOSE r \in found : TRUE IN
         IF ~u.is_active
         THEN Fail("login", "Account is deactivated. Please contact administrator.")
         ELSE IF ~verify_password(request.password, u.password_hash)
         THEN Fail("login", "Invalid username or password")
         ELSE /\ users' = UpdateUserWhereId(u.id, [r \in users |-> [r EXCEPT !.last_login = TS]])
              /\ current_user' = Some(UserSession(u))
              /\ last' = [op |-> "login", result |-> Ok, value |-> Some(UserSession(u))]
              /\ UNCHANGED <<files, pc, lock, schema, user_seq, employees, audit_logs>>

\* logout that leaves the slot as it is
logout_keeps_session ==
    /\ last' = [op |-> "logout", result |-> Ok, value |-> None]
    /\ UNCHANGED <<files, pc, lock, schema, users, user_seq, employees, audit_logs, current_user>>

logout ==
    /\ current_user' = None
    /\ last' = [op |-> "logout", result |-> Ok, value |-> None]
    /\ UNCHANGED <<files, pc, lock, schema, users, user_seq, employees, audit_logs>>

get_current_user ==
    /\ last' = [op |-> "get_current_user", result |-> Ok, value |-> current_user]
    /\ UNCHANGED <<files, pc, lock, schema, users, user_seq, employees, audit_logs, current_user>>

\* the gate deciding by the stored row of the session's user
has_manage_users_from_db(cu) ==
    cu # None /\ \E u \in users :
                    u.id = cu[1].user_id /\ u.permissions.can_manage_users

\* the gate without the capability test: any session passes
has_manage_users_any_session(cu) == cu # None

\* Some(session) if session.permissions.can_manage_users
has_manage_users(cu) ==
    cu # None /\ cu[1].permissions.can_manage_users

valid_roles == {"admin", "hr_manager", "hr_staff", "viewer", "custom"}

\* the INSERT of create_user names can_backup_database
CreateUserInsertPrepares(s) == HasColumn(s, "can_backup_database")

create_user(request) ==
    IF ~has_manage_users(current_user)
    THEN Fail("create_user", "Permission denied. Only administrators can create users.")
    ELSE IF request.role \notin valid_roles
    THEN Fail("create_user", "Invalid role specified")
    ELSE IF ~CreateUserInsertPrepares(schema)
    THEN Fail("create_user", "table users has no column named can_backup_database")
    ELSE IF UserByName(request.username) # {}
    THEN Fail("create_user", "Username already exists")
    ELSE LET permissions == permissions_or_role(request.permissions, request.role)
             row == [id |-> user_seq + 1,
                     username |-> request.username,
                     password_hash |-> hash_password(request.password),
                     full_name |-> request.full_name,
                     role |-> request.role,
                     department_access |-> request.department_access,
                     is_active |-> TRUE,
                     permissions |-> [permissions EXCEPT
                         !.can_view_audit_logs = schema.column_default],
                     last_login |-> NULL]
         IN /\ user_seq < MaxUserId
            /\ users' = users \cup {row}
            /\ user_seq' = user_seq + 1
            /\ last' = [op |-> "create_user", result |-> Ok, value |-> None]
            /\ UNCHANGED <<files, pc, lock, schema, employees, audit_logs, current_user>>

\* rows of get_all_users: every column but password_hash, ORDER BY id
UserInfo(u) ==
    [id |-> u.id, username |-> u.username, full_name |-> u.full_name,
     role |-> u.role, department_access |-> u.department_access,
     is_active |-> u.is_active, last_login |-> u.last_login,
     permissions |-> Some(u.permissions)]

get_all_users ==
    IF ~has_manage_users(current_user)
    THEN Fail("get_all_users", "Permission denied")
    ELSE IF ~LoginQueryPrepares(schema)
    THEN Fail("get_all_users", "no such column: can_backup_database")
    ELSE /\ last' = [op |-> "get_all_users", result |-> Ok,
                     value |-> Some({UserInfo(u) : u \in users})]
         /\ UNCHANGED <<files, pc, lock, schema, users, user_seq, employees, audit_logs, current_user>>

\* the UPDATE of update_user names both further permission columns
UpdateUserPrepares(s) ==
    HasColumn(s, "can_backup_database") /\ HasColumn(s, "can_view_audit_logs")

update_user(request) ==
    IF ~has_manage_users(current_user)
    THEN Fail("update_user", "Permission denied")
    ELSE IF ~UpdateUserPrepares(schema)
    THEN Fail("update_user", "no such column: can_backup_database")
    ELSE LET permissions == permissions_or_role(request.permissions, request.role) IN
         /\ users' = UpdateUserWhereId(request.user_id,
                [r \in users |-> [r EXCEPT !.full_name = request.full_name,
                                     !.role = request.role,
                                     !.department_access = request.department_access,
                                     !.is_active = request.is_active,
                                     !.permissions = permissions]])
         /\ last' = [op |-> "update_user", result |-> Ok, value |-> None]
         /\ UNCHANGED <<files, pc, lock, schema, user_seq, employees, audit_logs, current_user>>

\* the self-delete test left out
is_self_never(current_user_id, user_id) == FALSE

\* if current_user_id == user_id
is_self(current_user_id, user_id) == current_user_id = user_id

delete_user(user_id) ==
    IF ~has_manage_users(current_user)
    THEN Fail("delete_user", "Permission denied")
    ELSE IF is_self(current_user[1].user_id, user_id)
    THEN Fail("delete_user", "Cannot delete your own account")
    ELSE /\ users' = users \ UserById(user_id)
         /\ last' = [op |-> "delete_user", result |-> Ok, value |-> None]
         /\ UNCHANGED <<files, pc, lock, schema, user_seq, employees, audit_logs, current_user>>

reset_user_password(user_id, new_password) ==
    IF ~has_manage_users(current_user)
    THEN Fail("reset_user_password", "Permission denied")
    ELSE /\ users' = UpdateUserWhereId(user_id,
                [r \in users |-> [r EXCEPT !.password_hash = hash_password(new_password)]])
         /\ last' = [op |-> "reset_user_password", result |-> Ok, value |-> None]
         /\ UNCHANGED <<files, pc, lock, schema, user_seq, employees, audit_logs, current_user>>

\* change_own_password whose UPDATE has no WHERE clause
change_own_password_every_row(current_password, new_password) ==
    IF current_user = None
    THEN Fail("change_own_password", "Not logged in")
    ELSE LET user_id == current_user[1].user_id IN
         IF UserById(user_id) = {}
         THEN Fail("change_own_password", "User not found")
         ELSE LET stored_hash == (CHOOSE r \in UserById(user_id) : TRUE).password_hash IN
              IF ~verify_password(current_password, stored_hash)
              THEN Fail("change_own_password", "Current password is incorrect")
              ELSE /\ users' = {[r EXCEPT !.password_hash = hash_password(new_password)] :
                                   r \in users}
                   /\ last' = [op |-> "change_own_password", result |-> Ok, value |-> None]
                   /\ UNCHANGED <<files, pc, lock, schema, user_seq, employees, audit_logs, current_user>>

change_own_password(current_password, new_password) ==
    IF current_user = None
    THEN Fail("change_own_password", "Not logged in")
    ELSE LET user_id == current_user[1].user_id IN
         IF UserById(user_id) = {}
         THEN Fail("change_own_password", "User not found")
         ELSE LET stored_hash == (CHOOSE r \in UserById(user_id) : TRUE).password_hash IN
              IF ~verify_password(current_password, stored_hash)
              THEN Fail("change_own_password", "Current password is incorrect")
              ELSE /\ users' = UpdateUserWhereId(user_id,
                          [r \in users |-> [r EXCEPT !.password_hash = hash_password(new_password)]])
                   /\ last' = [op |-> "change_own_password", result |-> Ok, value |-> None]
                   /\ UNCHANGED <<files, pc, lock, schema, user_seq, employees, audit_logs, current_user>>

----------------------------------------------------------------------------
(* commands.rs: audit logging *)

\* rows of the audit_logs table: id is its AUTOINCREMENT key
AuditLog(id, user_id, username, action, entity_type, entity_id, old_value, new_value, details) ==
    [id |-> id, user_id |-> user_id, username |-> username, action |-> action,
     entity_type |-> entity_type, entity_id |-> entity_id,
     old_value |-> old_value, new_value |-> new_value, details |-> details,
     created_at |-> TS]

\* the entry written with the two snapshots exchanged
log_audit_action_swapped(user_id, username, action, entity_type, entity_id, old_value, new_value, details) ==
    IF HasTable(schema, "audit_logs")
    THEN Append(audit_logs,
                AuditLog(Len(audit_logs) + 1, user_id, username, action,
                         entity_type, entity_id, new_value, old_value, details))
    ELSE audit_logs

\* the entry written in place of the rows there were
log_audit_action_overwrites(user_id, username, action, entity_type, entity_id, old_value, new_value, details) ==
    IF HasTable(schema, "audit_logs")
    THEN <<AuditLog(1, user_id, username, action,
                    entity_type, entity_id, old_value, new_value, details)>>
    ELSE audit_logs

\* the INSERT of log_audit_action with its result dropped (let _ =): the
\* table with the row appended, or the table as it was when the INSERT fails
log_audit_action(user_id, username, action, entity_type, entity_id, old_value, new_value, details) ==
    IF HasTable(schema, "audit_logs")
    THEN Append(audit_logs,
                AuditLog(Len(audit_logs) + 1, user_id, username, action,
                         entity_type, entity_id, old_value, new_value, details))
    ELSE audit_logs

\* (user_id, username) taken from the session holder, "system" without one
audit_identity(cu) ==
    IF cu # None
    THEN [user_id |-> Some(cu[1].user_id), username |-> cu[1].username]
    ELSE [user_id |-> None, username |-> "system"]

\* the audit_logs table can take one more row within the bound
AuditRoom == ~HasTable(schema, "audit_logs") \/ Len(audit_logs) < MaxAudit

\* a command of commands.rs that main.rs does not register with invoke_handler:
\* no request reaches it, so no Next takes it
create_audit_log(action, entity_type, entity_id, old_value, new_value, details) ==
    LET who == audit_identity(current_user) IN
    /\ AuditRoom
    /\ audit_logs' = log_audit_action(who.user_id, who.username, action,
                         entity_type, entity_id, old_value, new_value, details)
    /\ last' = [op |-> "create_audit_log", result |-> Ok, value |-> None]
    /\ UNCHANGED <<files, pc, lock, schema, users, user_seq, employees, current_user>>

----------------------------------------------------------------------------
(* commands.rs: employees *)

\* serde_json::to_string(&Employee): the fields in declaration order
\* (the twelve further nullable text fields are carried the same way)
to_string(e) ==
    << <<"epf_number", e.epf_number>>,
       <<"name_with_initials", e.name_with_initials>>,
       <<"transport_route", e.transport_route>>,
       <<"working_status", e.working_status>>,
       <<"department", e.department>>,
       <<"created_at", e.created_at>> >>

\* SELECT ... FROM employees WHERE epf_number = ?1, .ok()
select_employee(epf_number) ==
    LET found == {e \in employees : e.epf_number = epf_number} IN
    IF found = {} THEN None ELSE Some(CHOOSE e \in found : TRUE)

\* the key constraint left out of the table
primary_key_unchecked(epf_number) == FALSE

\* epf_number TEXT PRIMARY KEY: the INSERT fails when the key is present
primary_key_taken(epf_number) == select_employee(epf_number) # None

\* Option::map over the one-element encoding
map_json(opt) == IF opt = None THEN None ELSE Some(to_string(opt[1]))

\* create_employee with the audit INSERT's error propagated by `?`
create_employee_audit_required(employee) ==
    IF primary_key_taken(employee.epf_number)
    THEN Fail("create_employee", "UNIQUE constraint failed: employees.epf_number")
    ELSE IF ~HasTable(schema, "audit_logs")
    THEN Fail("create_employee", "no such table: audit_logs")
    ELSE LET who == audit_identity(current_user) IN
         /\ AuditRoom
         /\ employees' = employees \cup {[employee EXCEPT !.created_at = TS]}
         /\ audit_logs' = log_audit_action(who.user_id, who.username,
                "CREATE", "EMPLOYEE", Some(employee.epf_number),
                None, Some(to_string(employee)),
                Some(<<"Created employee: ", employee.name_with_initials,
                       " (", employee.epf_number, ")">>))
         /\ last' = [op |-> "create_employee", result |-> Ok, value |-> None]
         /\ UNCHANGED <<files, pc, lock, schema, users, user_seq, current_user>>

create_employee(employee) ==
    IF primary_key_taken(employee.epf_number)
    THEN Fail("create_employee", "UNIQUE constraint failed: employees.epf_number")
    ELSE LET who == audit_identity(current_user) IN
         /\ AuditRoom
         /\ employees' = employees \cup {[employee EXCEPT !.created_at = TS]}
         /\ audit_logs' = log_audit_action(who.user_id, who.username,
                "CREATE", "EMPLOYEE", Some(employee.epf_number),
                None, Some(to_string(employee)),
                Some(<<"Created employee: ", employee.name_with_initials,
                       " (", employee.epf_number, ")">>))
         /\ last' = [op |-> "create_employee", result |-> Ok, value |-> None]
         /\ UNCHANGED <<files, pc, lock, schema, users, user_seq, current_user>>

\* update_employee as INSERT OR REPLACE: a missing key gets a row
update_employee_upsert(employee) ==
    LET old_employee == select_employee(employee.epf_number)
        who == audit_identity(current_user) IN
    /\ AuditRoom
    /\ employees' =
          {e \in employees : e.epf_number # employee.epf_number}
          \cup {[employee EXCEPT !.created_at = TS]}
    /\ audit_logs' = log_audit_action(who.user_id, who.username,
           "UPDATE", "EMPLOYEE", Some(employee.epf_number),
           map_json(old_employee), Some(to_string(employee)),
           Some(<<"Updated employee: ", employee.name_with_initials,
                  " (", employee.epf_number, ")">>))
    /\ last' = [op |-> "update_employee", result |-> Ok, value |-> None]
    /\ UNCHANGED <<files, pc, lock, schema, users, user_seq, current_user>>

update_employee(employee) ==
    LET old_employee == select_employee(employee.epf_number)
        who == audit_identity(current_user) IN
    /\ AuditRoom
    /\ employees' =
          {IF e.epf_number = employee.epf_number
           THEN [employee EXCEPT !.created_at = e.created_at]
           ELSE e : e \in employees}
    /\ audit_logs' = log_audit_action(who.user_id, who.username,
           "UPDATE", "EMPLOYEE", Some(employee.epf_number),
           map_json(old_employee), Some(to_string(employee)),
           Some(<<"Updated employee: ", employee.name_with_initials,
                  " (", employee.epf_number, ")">>))
    /\ last' = [op |-> "update_employee", result |-> Ok, value |-> None]
    /\ UNCHANGED <<files, pc, lock, schema, users, user_seq, current_user>>

\* delete_employee whose DELETE matches no row
delete_employee_keeps_row(epf_number) ==
    LET old_employee == select_employee(epf_number)
        who == audit_identity(current_user)
        employee_name == IF old_employee = None THEN ""
                         ELSE old_employee[1].name_with_initials IN
    /\ AuditRoom
    /\ audit_logs' = log_audit_action(who.user_id, who.username,
           "DELETE", "EMPLOYEE", Some(epf_number),
           map_json(old_employee), None,
           Some(<<"Deleted employee: ", employee_name, " (", epf_number, ")">>))
    /\ last' = [op |-> "delete_employee", result |-> Ok, value |-> None]
    /\ UNCHANGED <<files, pc, lock, schema, users, user_seq, employees, current_user>>

delete_employee(epf_number) ==
    LET old_employee == select_employee(epf_number)
        who == audit_identity(current_user)
        employee_name == IF old_employee = None THEN ""
                         ELSE old_employee[1].name_with_initials IN
    /\ AuditRoom
    /\ employees' = {e \in employees : e.epf_number # epf_number}
    /\ audit_logs' = log_audit_action(who.user_id, who.username,
           "DELETE", "EMPLOYEE", Some(epf_number),
           map_json(old_employee), None,
           Some(<<"Deleted employee: ", employee_name, " (", epf_number, ")">>))
    /\ last' = [op |-> "delete_employee", result |-> Ok, value |-> None]
    /\ UNCHANGED <<files, pc, lock, schema, users, user_seq, current_user>>

\* query_row(...).map_err(|e| format!("Employee not found: {}", e))
get_employee_by_epf(epf_number) ==
    LET found == select_employee(epf_number) IN
    IF found = None
    THEN Fail("get_employee_by_epf", "Employee not found: Query returned no rows")
    ELSE /\ last' = [op |-> "get_employee_by_epf", result |-> Ok, value |-> found]
         /\ UNCHANGED <<files, pc, lock, schema, users, user_seq, employees, audit_logs, current_user>>

----------------------------------------------------------------------------
(* commands.rs: the employee list and the dashboard *)

\* SQLite folds the ASCII letters for LIKE
lower(byte) == IF byte >= 65 /\ byte <= 90 THEN byte + 32 ELSE byte

\* text LIKE pattern, no ESCAPE: % is any run of bytes, _ any one byte
RECURSIVE like(_, _)
like(text, pattern) ==
    IF pattern = << >> THEN text = << >>
    ELSE IF Head(pattern) = 37
    THEN \E k \in 0..Len(text) :
            like(SubSeq(text, k + 1, Len(text)), Tail(pattern))
    ELSE /\ text # << >>
         /\ (Head(pattern) = 95 \/ lower(Head(pattern)) = lower(Head(text)))
         /\ like(Tail(text), Tail(pattern))

\* format!("%{}%", filters.epf_number)
like_pattern(value) == <<37>> \o as_bytes(value) \o <<37>>

\* the WHERE clause get_employees builds: a test per non-empty filter field;
\* a NULL column equals no parameter
where_filters(e, filters) ==
    /\ filters.epf_number # ""
       => like(as_bytes(e.epf_number), like_pattern(filters.epf_number))
    /\ filters.department # ""
       => (e.department # NULL /\ e.department = filters.department)
    /\ filters.transport_route # ""
       => (e.transport_route # NULL /\ e.transport_route = filters.transport_route)
    /\ filters.working_status # "" => e.working_status = filters.working_status

\* text comparison under the BINARY collation (memcmp, then length)
RECURSIVE bytes_less(_, _)
bytes_less(a, b) ==
    IF b = << >> THEN FALSE
    ELSE IF a = << >> THEN TRUE
    ELSE IF Head(a) # Head(b) THEN Head(a) < Head(b)
    ELSE bytes_less(Tail(a), Tail(b))

\* ORDER BY epf_number ASC
RECURSIVE order_by_epf_number(_)
order_by_epf_number(rows) ==
    IF rows = {} THEN << >>
    ELSE LET first == CHOOSE e \in rows : \A o \in rows \ {e} :
                         bytes_less(as_bytes(e.epf_number), as_bytes(o.epf_number))
         IN <<first>> \o order_by_epf_number(rows \ {first})

get_employees(filters) ==
    /\ last' = [op |-> "get_employees", result |-> Ok,
                value |-> Some(order_by_epf_number(
                              {e \in employees : where_filters(e, filters)}))]
    /\ UNCHANGED <<files, pc, lock, schema, users, user_seq, employees, audit_logs, current_user>>

\* SELECT COUNT(*) FROM employees WHERE working_status <> 'active' for resigned
count_resigned_as_not_active == Cardinality({e \in employees : e.working_status # "active"})

\* SELECT COUNT(*) FROM employees WHERE working_status = 'resign'
count_resigned == Cardinality({e \in employees : e.working_status = "resign"})

\* SELECT COALESCE(department, 'Unassigned'), COUNT(*) ... WHERE
\* working_status = 'active' GROUP BY department
department_counts ==
    LET active == {e \in employees : e.working_status = "active"} IN
    {[name |-> IF d = NULL THEN "Unassigned" ELSE d,
      count |-> Cardinality({e \in active : e.department = d})] :
        d \in {e.department : e \in active}}

\* the counts of get_dashboard_stats over the columns carried here (the
\* cader and allocation groups and the 30-day counts read columns that are
\* not); departments come ORDER BY count DESC, kept as the set of groups
get_dashboard_stats ==
    /\ last' = [op |-> "get_dashboard_stats", result |-> Ok,
                value |-> Some([total_employees |-> Cardinality(employees),
                                active_employees |->
                                    Cardinality({e \in employees :
                                                    e.working_status = "active"}),
                                resigned_employees |-> count_resigned,
                                departments |-> department_counts])]
    /\ UNCHANGED <<files, pc, lock, schema, users, user_seq, employees, audit_logs, current_user>>

----------------------------------------------------------------------------
(* commands.rs: database maintenance, and the restart it asks for *)

\* what the database file holds when it is what the connection serves
Image ==
    [users |-> users, user_seq |-> user_seq, employees |-> employees,
     audit_logs |-> audit_logs]

\* what hrm_system.db may hold on disk: the connection's tables, or, once
\* import_database has copied a file over it under the open connection, that
\* file; writes made through the connection since then land in the same file
\* and either content may be the one that survives
DiskImages ==
    IF files.replaced = None THEN {Image}
    ELSE IF files.replaced[1].served = Image THEN {files.replaced[1].image}
    ELSE {files.replaced[1].image, Image}

\* fs::copy(&db_path, &destination_path)
export_database(destination_path) ==
    /\ \E content \in DiskImages :
          files' = [files EXCEPT ![destination_path] = Some(content)]
    /\ last' = [op |-> "export_database", result |-> Ok,
                value |-> Some(<<"Database exported successfully to: ", destination_path>>)]
    /\ UNCHANGED <<pc, lock, schema, users, user_seq, employees, audit_logs, current_user>>

\* import_database: the file is copied over hrm_system.db while the
\* connection made by init_db stays open.  What that connection serves next
\* is not decided by the code: either it reads the copied file, or it keeps
\* serving the tables it had until the application is restarted
import_database(source_path) ==
    IF files[source_path] = None
    THEN Fail("import_database", "Source database file not found")
    ELSE /\ \E backup \in DiskImages :
            \/ /\ users' = files[source_path][1].users
               /\ user_seq' = files[source_path][1].user_seq
               /\ employees' = files[source_path][1].employees
               /\ audit_logs' = files[source_path][1].audit_logs
               /\ files' = [files EXCEPT !.backup = Some(backup), !.replaced = None]
            \/ /\ files' = [files EXCEPT
                      !.backup = Some(backup),
                      !.replaced = Some([image |-> files[source_path][1],
                                         served |-> Image])]
               /\ UNCHANGED <<users, user_seq, employees, audit_logs>>
         /\ last' = [op |-> "import_database", result |-> Ok,
                     value |-> Some("Database imported successfully. Please restart the application for changes to take effect.")]
         /\ UNCHANGED <<pc, lock, schema, current_user>>

\* init_db without its UPDATE of the admin rows
admin_update_none(u) == u

\* init_db's UPDATE users SET <the nine columns>=1 WHERE role='admin'
admin_update(u) ==
    IF u.role = "admin"
    THEN [u EXCEPT !.permissions =
             [admin EXCEPT
                 !.can_backup_database = u.permissions.can_backup_database,
                 !.can_view_audit_logs = u.permissions.can_view_audit_logs]]
    ELSE u

\* init_db on a users table: the default admin when it is empty, then the UPDATE
init_db_users(rows, next_id) ==
    {admin_update(u) :
        u \in IF rows = {} THEN {[BootstrapAdmin(schema) EXCEPT !.id = next_id]}
              ELSE rows}

\* the process is closed and started again: main.rs setup runs init_db on the
\* database file and manages an empty session holder
restart ==
    /\ \E content \in DiskImages :
          /\ users' = init_db_users(content.users, content.user_seq + 1)
          /\ user_seq' = IF content.users = {} THEN content.user_seq + 1
                         ELSE content.user_seq
          /\ employees' = content.employees
          /\ audit_logs' = content.audit_logs
    /\ current_user' = None
    /\ files' = [files EXCEPT !.replaced = None]
    /\ last' = [op |-> "main", result |-> Ok, value |-> None]
    /\ UNCHANGED <<pc, lock, schema>>

----------------------------------------------------------------------------
(* The two mutexes: DbConnection(Mutex<Connection>) and                     *)
(* CurrentUser(Mutex<Option<UserSession>>).  Each command is followed here  *)
(* through the steps that touch a mutex, in the order of its code: lock() , *)
(* the guard going out of scope or drop(), and between them the database    *)
(* calls, the reads and writes of the session slot and the file copies.     *)
(* The tables are left as they are: these steps carry no data.              *)

\* login, credentials accepted: conn, query_row, UPDATE last_login, then
\* user_lock inside the match arm; guards are released in reverse order
login_locks ==
    <<"lock db", "sql", "sql", "lock current_user", "session",
      "unlock current_user", "unlock db">>

\* login, refused: the function returns with conn only
login_refused_locks == <<"lock db", "sql", "unlock db">>

\* logout and get_current_user; also a user command refused by its gate
session_locks == <<"lock current_user", "session", "unlock current_user">>

\* create_user with user_lock kept until the function returns
manage_users_locks_keeps_guard ==
    <<"lock current_user", "session", "lock db", "sql", "unlock db",
      "unlock current_user">>

\* create_user, get_all_users, update_user, delete_user, reset_user_password:
\* user_lock, the gate, drop(user_lock), then conn
manage_users_locks ==
    <<"lock current_user", "session", "unlock current_user", "lock db", "sql",
      "unlock db">>

\* change_own_password with user_lock kept until the function returns
change_own_password_locks_keeps_guard ==
    <<"lock current_user", "session", "lock db", "sql", "sql", "unlock db",
      "unlock current_user">>

\* change_own_password: user_lock, drop(user_lock), conn, SELECT, UPDATE
change_own_password_locks ==
    <<"lock current_user", "session", "unlock current_user", "lock db", "sql",
      "sql", "unlock db">>

\* create_employee, update_employee, delete_employee: conn, the statement,
\* then user_guard, which is held while log_audit_action runs its INSERT on
\* conn; both guards live to the end of the function
employee_locks ==
    <<"lock db", "sql", "lock current_user", "session", "sql",
      "unlock current_user", "unlock db">>

\* get_employees, get_employee_by_epf, get_dashboard_stats, get_database_info
\* and the get_distinct_* commands
read_locks == <<"lock db", "sql", "unlock db">>

\* import_database: the backup copy, the block that locks and unlocks conn,
\* the copy over the database file
import_database_locks == <<"fs::copy", "lock db", "unlock db", "fs::copy">>

\* export_database takes no mutex
export_database_locks == <<"fs::copy">>

LockPrograms ==
    [login |-> login_locks,
     login_refused |-> login_refused_locks,
     logout |-> session_locks,
     create_user |-> manage_users_locks,
     change_own_password |-> change_own_password_locks,
     create_employee |-> employee_locks,
     get_employees |-> read_locks,
     import_database |-> import_database_locks,
     export_database |-> export_database_locks]

\* the step a thread is at, "" when it is in no command
at_step(t) ==
    IF pc[t] = Idle THEN "" ELSE LockPrograms[pc[t].op][pc[t].at]

\* the position after the current step: the command returns after its last
advance(t) ==
    IF pc[t].at = Len(LockPrograms[pc[t].op]) THEN Idle
    ELSE [pc[t] EXCEPT !.at = pc[t].at + 1]

mutex_of(step) == IF step \in {"lock db", "unlock db"} THEN "db" ELSE "current_user"

\* the front end invokes a command on a thread
invoke(t, op) ==
    /\ pc[t] = Idle
    /\ pc' = [pc EXCEPT ![t] = [op |-> op, at |-> 1]]
    /\ UNCHANGED <<lock, files, schema, users, user_seq, employees, audit_logs, current_user, last>>

\* Mutex::lock: blocks while another guard exists
acquire(t) ==
    /\ at_step(t) \in {"lock db", "lock current_user"}
    /\ lock[mutex_of(at_step(t))] = 0
    /\ lock' = [lock EXCEPT ![mutex_of(at_step(t))] = t]
    /\ pc' = [pc EXCEPT ![t] = advance(t)]
    /\ UNCHANGED <<files, schema, users, user_seq, employees, audit_logs, current_user, last>>

\* the guard is dropped
release(t) ==
    /\ at_step(t) \in {"unlock db", "unlock current_user"}
    /\ lock' = [lock EXCEPT ![mutex_of(at_step(t))] = 0]
    /\ pc' = [pc EXCEPT ![t] = advance(t)]
    /\ UNCHANGED <<files, schema, users, user_seq, employees, audit_logs, current_user, last>>

\* a database call, a use of the session slot or a file copy
call(t) ==
    /\ at_step(t) \in {"sql", "session", "fs::copy"}
    /\ pc' = [pc EXCEPT ![t] = advance(t)]
    /\ UNCHANGED <<lock, files, schema, users, user_seq, employees, audit_logs, current_user, last>>

NextLocks ==
    \E t \in Threads :
        \/ \E op \in DOMAIN LockPrograms : invoke(t, op)
        \/ acquire(t)
        \/ release(t)
        \/ call(t)

SpecLocks == Init /\ [][NextLocks]_vars

\* fair scheduling: a thread inside a command keeps running, and a thread
\* waiting for a mutex that is free again and again gets it
SpecLocksFair ==
    /\ SpecLocks
    /\ \A t \in Threads :
          /\ WF_vars(release(t) \/ call(t))
          /\ SF_vars(acquire(t))

----------------------------------------------------------------------------
(* Requests the front end may send *)

ExplicitPermissions ==
    [viewer EXCEPT !.can_manage_users = TRUE, !.can_backup_database = TRUE,
                   !.can_view_audit_logs = TRUE]

LoginRequests == [username : Usernames \cup {"ghost"}, password : Passwords]

CreateUserRequests ==
    [username : Usernames, password : {"pw"}, full_name : {"Bob"},
     role : RequestRoles, department_access : {NULL},
     permissions : {None, Some(ExplicitPermissions)}]

UpdateUserRequests ==
    [user_id : 1..MaxUserId, full_name : {"Renamed"}, role : RequestRoles,
     department_access : {NULL}, is_active : BOOLEAN,
     permissions : {None, Some(ExplicitPermissions)}]

\* Employee as deserialized from a request: created_at is skipped (None)
EmployeeRequests ==
    {[epf_number |-> "E1", name_with_initials |-> "A. Perera",
      transport_route |-> "R1", working_status |-> "active",
      department |-> "HR", created_at |-> NULL],
     [epf_number |-> "E1", name_with_initials |-> "A. B. Perera",
      transport_route |-> NULL, working_status |-> "resign",
      department |-> "IT", created_at |-> NULL],
     [epf_number |-> "E2", name_with_initials |-> "C. Silva",
      transport_route |-> "R1", working_status |-> "active",
      department |-> "HR", created_at |-> NULL]}

EpfNumbers == {"E1", "E2"}

NextAuth ==
    \/ \E request \in LoginRequests : login(request)
    \/ logout
    \/ get_current_user
    \/ \E request \in CreateUserRequests : create_user(request)
    \/ get_all_users
    \/ \E request \in UpdateUserRequests : update_user(request)
    \/ \E user_id \in 1..MaxUserId : delete_user(user_id)
    \/ \E user_id \in 1..MaxUserId, new_password \in Passwords :
          reset_user_password(user_id, new_password)
    \/ \E current_password \in Passwords, new_password \in Passwords :
          change_own_password(current_password, new_password)

SpecAuth == Init /\ [][NextAuth]_vars

\* the employee commands, with the logins that give their audit rows a user
NextEmp ==
    \/ \E request \in {r \in LoginRequests : r.username = "admin"} : login(request)
    \/ logout
    \/ \E employee \in EmployeeRequests : create_employee(employee)
    \/ \E employee \in EmployeeRequests : update_employee(employee)
    \/ \E epf_number \in EpfNumbers : delete_employee(epf_number)

SpecEmp == Init /\ [][NextEmp]_vars

\* the employee table with the database maintenance commands and the restart
DbEmployeeRequests == {e \in EmployeeRequests : e.name_with_initials # "A. B. Perera"}

NextDb ==
    \/ \E employee \in DbEmployeeRequests : create_employee(employee)
    \/ \E epf_number \in EpfNumbers : delete_employee(epf_number)
    \/ \E epf_number \in EpfNumbers : get_employee_by_epf(epf_number)
    \/ export_database("F")
    \/ import_database("F")
    \/ restart

SpecDb == Init /\ [][NextDb]_vars

\* user management over every role name, the permission set left to the role
AllRoles == valid_roles \cup {"superuser"}

RoleCreateUserRequests ==
    [username : {"bob"}, password : {"pw"}, full_name : {"Bob"},
     role : AllRoles, department_access : {NULL}, permissions : {None}]

RoleUpdateUserRequests ==
    [user_id : 1..MaxUserId, full_name : {"Renamed"}, role : AllRoles,
     department_access : {NULL}, is_active : {TRUE}, permissions : {None}]

NextRoles ==
    \/ \E request \in [username : Usernames, password : {"admin123", "pw"}] :
          login(request)
    \/ logout
    \/ \E request \in RoleCreateUserRequests : create_user(request)
    \/ \E request \in RoleUpdateUserRequests : update_user(request)

SpecRoles == Init /\ [][NextRoles]_vars

\* the commands that hash and verify passwords, over passwords that differ
\* in one character, in order and in length
HashedPasswords == {"admin123", "admin124", "pw", "wp", "pwpw"}

NextPasswords ==
    \/ \E username \in Usernames, password \in HashedPasswords :
          login([username |-> username, password |-> password])
    \/ logout
    \/ \E password \in HashedPasswords :
          create_user([username |-> "bob", password |-> password,
                       full_name |-> "Bob", role |-> "viewer",
                       department_access |-> NULL, permissions |-> None])
    \/ \E new_password \in HashedPasswords : reset_user_password(1, new_password)
    \/ \E current_password \in HashedPasswords, new_password \in HashedPasswords :
          change_own_password(current_password, new_password)

SpecPasswords == Init /\ [][NextPasswords]_vars

\* the employee table with its list and dashboard reads
ListEmployeeRequests ==
    EmployeeRequests \cup
    {[epf_number |-> "E10", name_with_initials |-> "D. Fernando",
      transport_route |-> NULL, working_status |-> "probation",
      department |-> NULL, created_at |-> NULL]}

\* EmployeeFilters as the list page sends them: "" for a field not set
EmployeeFilters ==
    [epf_number : {"", "E1", "1", "e1", "_"}, department : {"", "HR"},
     transport_route : {"", "R1"}, working_status : {"", "active"}]

NextList ==
    \/ \E employee \in ListEmployeeRequests : create_employee(employee)
    \/ \E employee \in ListEmployeeRequests : update_employee(employee)
    \/ \E epf_number \in {"E1", "E2", "E10"} : delete_employee(epf_number)
    \/ \E filters \in EmployeeFilters : get_employees(filters)
    \/ get_dashboard_stats

SpecList == Init /\ [][NextList]_vars

\* user management with the database maintenance commands and the restart
DbUserLoginRequests ==
    {[username |-> "admin", password |-> "admin123"],
     [username |-> "bob", password |-> "pw"]}

DbCreateUserRequests ==
    {r \in CreateUserRequests : r.username = "bob" /\ r.role = "viewer"}

NextDbUsers ==
    \/ \E request \in DbUserLoginRequests : login(request)
    \/ logout
    \/ \E request \in DbCreateUserRequests : create_user(request)
    \/ \E user_id \in 1..MaxUserId : delete_user(user_id)
    \/ export_database("F")
    \/ import_database("F")
    \/ restart

SpecDbUsers == Init /\ [][NextDbUsers]_vars

\* user management with explicit permission sets, and the restart
StartupCreateUserRequests ==
    {r \in CreateUserRequests : r.username = "bob" /\ r.role \in {"admin", "viewer"}}

StartupUpdateUserRequests ==
    {r \in UpdateUserRequests : r.role \in {"admin", "viewer"} /\ r.is_active}

NextStartup ==
    \/ login([username |-> "admin", password |-> "admin123"])
    \/ \E request \in StartupCreateUserRequests : create_user(request)
    \/ \E request \in StartupUpdateUserRequests : update_user(request)
    \/ restart

SpecStartup == Init /\ [][NextStartup]_vars

\* every command together, each on a few requests
SomeLoginRequests ==
    {[username |-> "admin", password |-> "admin123"],
     [username |-> "admin", password |-> "pw"]}

SomeCreateUserRequests ==
    {r \in CreateUserRequests : r.role = "viewer" /\ r.permissions = None}

SomeUpdateUserRequests ==
    {r \in UpdateUserRequests :
        r.user_id = 2 /\ r.role = "viewer" /\ ~r.is_active}

Next ==
    \/ \E request \in SomeLoginRequests : login(request)
    \/ logout
    \/ get_current_user
    \/ \E request \in SomeCreateUserRequests : create_user(request)
    \/ get_all_users
    \/ \E request \in SomeUpdateUserRequests : update_user(request)
    \/ \E user_id \in 1..MaxUserId : delete_user(user_id)
    \/ reset_user_password(2, "pw")
    \/ change_own_password("admin123", "admin123")
    \/ \E employee \in EmployeeRequests : create_employee(employee)
    \/ \E employee \in EmployeeRequests : update_employee(employee)
    \/ \E epf_number \in EpfNumbers : delete_employee(epf_number)

Spec == Init /\ [][Next]_vars

----------------------------------------------------------------------------
(* delete_user and reset_user_password as the two critical sections of      *)
(* their code, for commands in flight on several threads: the gate under    *)
(* the session mutex, which is dropped, then the statement under the        *)
(* database mutex.  What the first section read is kept in the thread's     *)
(* locals; the other commands run between the two as they do anywhere.      *)

\* the locals of a command that has passed its gate and waits for conn
Passed(op, user_id, new_password) ==
    [op |-> op, at |-> 4, user_id |-> user_id, new_password |-> new_password,
     session |-> current_user]

\* delete_user up to drop(user_lock) and the self test on current_user_id
delete_user_gate(t, user_id) ==
    /\ pc[t] = Idle
    /\ IF ~has_manage_users(current_user)
       THEN Fail("delete_user", "Permission denied")
       ELSE IF is_self(current_user[1].user_id, user_id)
       THEN Fail("delete_user", "Cannot delete your own account")
       ELSE /\ pc' = [pc EXCEPT ![t] = Passed("delete_user", user_id, "")]
            /\ UNCHANGED <<files, lock, schema, users, user_seq, employees, audit_logs, current_user, last>>

\* delete_user from db.0.lock() on: the DELETE
delete_user_statement(t) ==
    /\ pc[t] # Idle
    /\ pc[t].op = "delete_user"
    /\ users' = users \ UserById(pc[t].user_id)
    /\ last' = [op |-> "delete_user", result |-> Ok, value |-> None]
    /\ pc' = [pc EXCEPT ![t] = Idle]
    /\ UNCHANGED <<files, lock, schema, user_seq, employees, audit_logs, current_user>>

\* reset_user_password up to drop(user_lock)
reset_user_password_gate(t, user_id, new_password) ==
    /\ pc[t] = Idle
    /\ IF ~has_manage_users(current_user)
       THEN Fail("reset_user_password", "Permission denied")
       ELSE /\ pc' = [pc EXCEPT ![t] =
                         Passed("reset_user_password", user_id, new_password)]
            /\ UNCHANGED <<files, lock, schema, users, user_seq, employees, audit_logs, current_user, last>>

\* reset_user_password from db.0.lock() on: the UPDATE
reset_user_password_statement(t) ==
    /\ pc[t] # Idle
    /\ pc[t].op = "reset_user_password"
    /\ users' = UpdateUserWhereId(pc[t].user_id,
          [r \in users |-> [r EXCEPT !.password_hash = hash_password(pc[t].new_password)]])
    /\ last' = [op |-> "reset_user_password", result |-> Ok, value |-> None]
    /\ pc' = [pc EXCEPT ![t] = Idle]
    /\ UNCHANGED <<files, lock, schema, user_seq, employees, audit_logs, current_user>>

NextRace ==
    \/ \E request \in DbUserLoginRequests : login(request)
    \/ logout
    \/ \E request \in DbCreateUserRequests : create_user(request)
    \/ \E t \in Threads, user_id \in 1..MaxUserId : delete_user_gate(t, user_id)
    \/ \E t \in Threads : delete_user_statement(t)
    \/ \E t \in Threads : reset_user_password_gate(t, 2, "pw")
    \/ \E t \in Threads : reset_user_password_statement(t)

SpecRace == Init /\ [][NextRace]_vars

----------------------------------------------------------------------------
(* Vocabulary of the properties *)

EmployeeOps == {"create_employee", "update_employee", "delete_employee"}
UserManagementOps ==
    {"create_user", "update_user", "delete_user", "reset_user_password"}

\* the session in s holds capability c
Holds(s, c) == s # None /\ s[1].permissions[c]

RequiredCapability(op) ==
    CASE op = "create_employee" -> "can_add_employees"
      [] op = "update_employee" -> "can_edit_employees"
      [] op = "delete_employee" -> "can_delete_employees"

\* the stored employee row under key k, as a set of at most one row
Stored(k) == {e \in employees : e.epf_number = k}
\* the JSON snapshot of that row, None when there is none
StoredJson(k) ==
    IF Stored(k) = {} THEN None
    ELSE Some(to_string(CHOOSE e \in Stored(k) : TRUE))

\* the row appended to the audit log by the step, if one was
Appended == Len(audit_logs') = Len(audit_logs) + 1
NewEntry == audit_logs'[Len(audit_logs')]

----------------------------------------------------------------------------
(* C1: create_employee, update_employee and delete_employee change the     *)
(* employees table only for a session that holds can_add_employees,        *)
(* can_edit_employees, can_delete_employees respectively; without a        *)
(* session, or without the capability, the call fails and the table is     *)
(* unchanged.                                                              *)
C1_EmployeeMutationsGated ==
    [][ (last'.op \in EmployeeOps
         /\ ~Holds(current_user, RequiredCapability(last'.op)))
        => (last'.result # Ok /\ employees' = employees) ]_vars

(* C2: with no session, or a session without can_manage_users, each of     *)
(* create_user, update_user, delete_user and reset_user_password fails and *)
(* leaves the users table unchanged.                                       *)
C2_UserManagementGated ==
    [][ (last'.op \in UserManagementOps
         /\ (current_user = None
             \/ ~current_user[1].permissions.can_manage_users))
        => (last'.result # Ok /\ users' = users /\ user_seq' = user_seq) ]_vars

\* a logged-in user without can_manage_users was refused a user-management call
C2_Witness ==
    /\ last.op \in UserManagementOps
    /\ last.result # Ok
    /\ current_user # None
    /\ ~current_user[1].permissions.can_manage_users

(* C3: for a session with can_manage_users, delete_user(target) removes    *)
(* the target row when target differs from the session's user_id, and      *)
(* fails with "Cannot delete your own account", users unchanged, when it   *)
(* equals it; no step removes the row of the session's own user_id.        *)
C3_NoSelfDelete ==
    [][ /\ \A target \in 1..MaxUserId :
              (delete_user(target)
               /\ current_user # None
               /\ current_user[1].permissions.can_manage_users)
              => IF target = current_user[1].user_id
                 THEN /\ last'.result = "Cannot delete your own account"
                      /\ users' = users
                 ELSE /\ last'.result = Ok
                      /\ users' = {u \in users : u.id # target}
        /\ (current_user # None
            /\ \E u \in users : u.id = current_user[1].user_id)
           => \E u \in users' : u.id = current_user[1].user_id ]_vars

\* an administrator tried to delete their own row and was refused
C3_Witness ==
    /\ last.op = "delete_user"
    /\ last.result = "Cannot delete your own account"
    /\ current_user # None
    /\ \E u \in users : u.id = current_user[1].user_id

(* C4: every create_employee, update_employee or delete_employee call that *)
(* returns success adds exactly one audit entry, with entity_type EMPLOYEE *)
(* and entity_id the affected epf_number, also on the database that        *)
(* init_db creates on first run.                                           *)
C4_OneAuditEntryPerMutation ==
    [][ /\ \A employee \in EmployeeRequests :
              ((create_employee(employee) \/ update_employee(employee))
               /\ last'.result = Ok)
              => /\ Appended
                 /\ NewEntry.entity_type = "EMPLOYEE"
                 /\ NewEntry.entity_id = Some(employee.epf_number)
        /\ \A epf_number \in EpfNumbers :
              (delete_employee(epf_number) /\ last'.result = Ok)
              => /\ Appended
                 /\ NewEntry.entity_type = "EMPLOYEE"
                 /\ NewEntry.entity_id = Some(epf_number) ]_vars

(* C5: the audit entry written by an employee mutation carries the         *)
(* snapshots: create has old_value null and new_value the record inserted; *)
(* update has old_value the record stored under the key just before and    *)
(* new_value the supplied record; delete has old_value the record stored   *)
(* just before and new_value null.                                         *)
C5_AuditSnapshots ==
    [][ /\ \A employee \in EmployeeRequests :
              /\ (create_employee(employee) /\ Appended)
                 => /\ NewEntry.action = "CREATE"
                    /\ NewEntry.old_value = None
                    /\ NewEntry.new_value = Some(to_string(employee))
                    /\ \E e \in employees' :
                          [e EXCEPT !.created_at = NULL] = employee
              /\ (update_employee(employee) /\ Appended)
                 => /\ NewEntry.action = "UPDATE"
                    /\ NewEntry.old_value = StoredJson(employee.epf_number)
                    /\ NewEntry.new_value = Some(to_string(employee))
        /\ \A epf_number \in EpfNumbers :
              (delete_employee(epf_number) /\ Appended)
              => /\ NewEntry.action = "DELETE"
                 /\ NewEntry.old_value = StoredJson(epf_number)
                 /\ NewEntry.new_value = None ]_vars

\* an update of a stored employee was logged with differing snapshots
C5_Witness ==
    /\ last.op = "update_employee"
    /\ audit_logs # << >>
    /\ LET entry == audit_logs[Len(audit_logs)] IN
       /\ entry.action = "UPDATE"
       /\ entry.old_value # None
       /\ entry.new_value # None
       /\ entry.old_value[1][2] # entry.new_value[1][2]

(* C6: when the insert into the audit log fails, create_employee,          *)
(* update_employee and delete_employee still return success and the change *)
(* to the employees table stays applied.                                   *)
C6_AuditFailureSwallowed ==
    [][ ("audit_logs" \notin schema.tables)
        => /\ \A employee \in EmployeeRequests :
                 /\ (create_employee(employee)
                     /\ Stored(employee.epf_number) = {})
                    => /\ last'.result = Ok
                       /\ [employee EXCEPT !.created_at = TS] \in employees'
                 /\ (update_employee(employee)
                     /\ Stored(employee.epf_number) # {})
                    => /\ last'.result = Ok
                       /\ \E e \in employees' :
                             [e EXCEPT !.created_at = NULL] = employee
           /\ \A epf_number \in EpfNumbers :
                 delete_employee(epf_number)
                 => /\ last'.result = Ok
                    /\ \A e \in employees' : e.epf_number # epf_number ]_vars

\* an employee was created although no audit row could be written
C6_Witness ==
    /\ last.op = "create_employee"
    /\ last.result = Ok
    /\ employees # {}
    /\ "audit_logs" \notin schema.tables
    /\ audit_logs = << >>

(* C7: the session's permission set is the copy taken at login: after      *)
(* update_user changes the stored row of the logged-in user, every         *)
(* authorization check still decides by the session's copy, the session is *)
(* left as it was, and a later successful login copies the stored set.     *)
GatedOps == UserManagementOps \cup {"get_all_users"}
PermissionDenied ==
    {"Permission denied",
     "Permission denied. Only administrators can create users."}

C7_SessionSnapshot ==
    [][ /\ (last'.op \in GatedOps)
           => ((last'.result \in PermissionDenied)
               <=> ~(current_user # None
                     /\ current_user[1].permissions.can_manage_users))
        /\ (last'.op \in GatedOps) => current_user' = current_user
        /\ \A request \in LoginRequests :
              (login(request) /\ last'.result = Ok)
              => \E u \in users :
                    /\ u.username = request.username
                    /\ current_user'[1].user_id = u.id
                    /\ current_user'[1].permissions = u.permissions ]_vars

\* a session that kept can_manage_users after its stored row lost it has
\* just created a user
C7_Witness ==
    /\ last.op = "create_user"
    /\ last.result = Ok
    /\ current_user # None
    /\ current_user[1].permissions.can_manage_users
    /\ \E u \in users :
          /\ u.id = current_user[1].user_id
          /\ ~u.permissions.can_manage_users

C9_LoginIffCredentials ==
    [][ \A request \in LoginRequests :
           login(request)
           => /\ (last'.result = Ok)
                 <=> \E u \in users :
                        /\ u.username = request.username
                        /\ u.is_active
                        /\ u.password_hash = hash_password(request.password)
              /\ (last'.result = Ok)
                 => \E u \in users' :
                       u.username = request.username /\ u.last_login = TS
              /\ (last'.result # Ok)
                 => (current_user' = current_user /\ users' = users) ]_vars

(* C10: create_employee with an epf_number already present and create_user *)
(* with a username already present fail (with the duplicate-key error once *)
(* the caller is authorized), change neither table and add no audit entry. *)
C10_DuplicateCreateRejected ==
    [][ /\ \A employee \in EmployeeRequests :
              (create_employee(employee)
               /\ Stored(employee.epf_number) # {})
              => /\ last'.result = "UNIQUE constraint failed: employees.epf_number"
                 /\ employees' = employees
                 /\ audit_logs' = audit_logs
        /\ \A request \in SomeCreateUserRequests :
              (create_user(request)
               /\ \E u \in users : u.username = request.username)
              => /\ last'.result # Ok
                 /\ users' = users
                 /\ audit_logs' = audit_logs
                 /\ (current_user # None
                     /\ current_user[1].permissions.can_manage_users)
                    => last'.result = "Username already exists" ]_vars

\* an administrator's create_user with a taken username was refused
C10_Witness ==
    /\ last.op = "create_user"
    /\ last.result = "Username already exists"
    /\ employees # {}

\* a create_employee with a taken epf_number was refused, other rows present
C10_WitnessEmployee ==
    /\ last.op = "create_employee"
    /\ last.result = "UNIQUE constraint failed: employees.epf_number"
    /\ Cardinality(employees) = 2
    /\ audit_logs # << >>

NotFound == "Employee not found: Query returned no rows"

\* the step is a create_employee with key k that returned success
CreatedKey(k) ==
    \E employee \in EmployeeRequests :
       employee.epf_number = k /\ create_employee(employee) /\ last'.result = Ok

\* what delete_employee(k) and get_employee_by_epf(k) do to a key, common to
\* both statements of C11
DeleteThenRead(k) ==
    /\ (delete_employee(k) /\ last'.result = Ok)
       => employees' = {e \in employees : e.epf_number # k}
    /\ (get_employee_by_epf(k) /\ Stored(k) = {})
       => (last'.result = NotFound /\ employees' = employees)

(* C11: after delete_employee(k) returns success the key k is absent and    *)
(* get_employee_by_epf(k) fails with NotFound in every later state until a  *)
(* create_employee with key k succeeds; the delete leaves the records under *)
(* other keys as they were.                                                 *)
C11_DeletedStaysNotFound ==
    [][ \A k \in EpfNumbers :
           /\ DeleteThenRead(k)
           /\ (Stored(k) = {} /\ ~CreatedKey(k)) => Stored(k)' = {} ]_vars

(* C11 as amended: the same, where the key stays absent until a             *)
(* create_employee with key k succeeds, import_database replaces the        *)
(* database file, or the application is restarted on a replaced file.       *)
C11_DeletedStaysNotFoundUntilReplaced ==
    [][ \A k \in EpfNumbers :
           /\ DeleteThenRead(k)
           /\ (Stored(k) = {} /\ ~CreatedKey(k)
               /\ last'.op \notin {"import_database", "main"})
              => Stored(k)' = {} ]_vars

\* a read of the key E1, stored when the export was made and deleted since,
\* was refused while E2 is still stored
C11_Witness ==
    /\ last.op = "get_employee_by_epf"
    /\ last.result = NotFound
    /\ Stored("E1") = {}
    /\ Stored("E2") # {}
    /\ files.F # None
    /\ \E e \in files.F[1].employees : e.epf_number = "E1"

\* the table of spec 4.2: the capabilities each role holds
Capabilities ==
    {"can_view_employees", "can_add_employees", "can_edit_employees",
     "can_delete_employees", "can_manage_users", "can_view_all_departments",
     "can_export_data", "can_view_reports", "can_manage_settings",
     "can_backup_database", "can_view_audit_logs"}

RoleTableTrue(role) ==
    CASE role = "admin" -> Capabilities
      [] role = "hr_manager" ->
            {"can_view_employees", "can_add_employees", "can_edit_employees",
             "can_delete_employees", "can_view_all_departments",
             "can_export_data", "can_view_reports"}
      [] role = "hr_staff" -> {"can_view_employees", "can_add_employees"}
      [] OTHER -> {"can_view_employees"}

(* C12: from_role(role) is the fixed table for every role: admin holds all  *)
(* eleven capabilities, hr_manager view/add/edit/delete/all_depts/export/   *)
(* reports, hr_staff view and add, viewer view only, and every other role   *)
(* string (custom included) the same set as viewer; update_user with no     *)
(* explicit set stores exactly that set.                                    *)
C12_FromRoleTable ==
    [][ \A request \in RoleUpdateUserRequests :
           (update_user(request) /\ last'.result = Ok)
           => /\ \A c \in Capabilities :
                    from_role(request.role)[c] <=> c \in RoleTableTrue(request.role)
              /\ DOMAIN from_role(request.role) = Capabilities
              /\ (request.role \notin {"admin", "hr_manager", "hr_staff"})
                 => from_role(request.role) = from_role("viewer")
              /\ \A u \in users' :
                    u.id = request.user_id
                    => \A c \in Capabilities :
                          u.permissions[c] <=> c \in RoleTableTrue(request.role) ]_vars

\* update_user has given one stored user the hr_staff set and the session's
\* user a role outside the table
C12_Witness ==
    /\ last.op = "update_user"
    /\ last.result = Ok
    /\ \E u \in users : u.role = "hr_staff" /\ u.permissions = hr_staff
    /\ \E u \in users : u.role = "superuser" /\ u.permissions = viewer

\* the stored hash of the session's user, as a set of at most one digest
SessionHash ==
    {u.password_hash : u \in {r \in users : current_user # None
                                            /\ r.id = current_user[1].user_id}}

(* C13: for all non-empty passwords p1 and p2, verify_password(p1,          *)
(* hash_password(p2)) is true exactly when p1 = p2; login and               *)
(* change_own_password accept p1 against the stored digest of p2 exactly    *)
(* when p1 = p2.                                                            *)
C13_VerifyIffSamePassword ==
    [][ \A p1 \in HashedPasswords, p2 \in HashedPasswords :
           /\ verify_password(p1, hash_password(p2)) <=> (p1 = p2)
           /\ \A new_password \in HashedPasswords :
                 (change_own_password(p1, new_password)
                  /\ SessionHash = {hash_password(p2)})
                 => ((last'.result = Ok) <=> (p1 = p2))
           /\ \A username \in Usernames :
                 (login([username |-> username, password |-> p1])
                  /\ LoginQueryPrepares(schema)
                  /\ \E u \in users : /\ u.username = username /\ u.is_active
                                      /\ u.password_hash = hash_password(p2))
                 => ((last'.result = Ok) <=> (p1 = p2)) ]_vars

\* a password one character away from the stored one was refused
C13_Witness ==
    /\ last.op = "change_own_password"
    /\ last.result = "Current password is incorrect"
    /\ SessionHash = {hash_password("admin124")}

\* needle occurs in hay, byte for byte
substring(needle, hay) ==
    \E i \in 1..(Len(hay) + 1) :
        /\ i + Len(needle) - 1 <= Len(hay)
        /\ SubSeq(hay, i, i + Len(needle) - 1) = needle

\* the conjunction of the non-empty criteria of a filter, as stated
satisfies(e, filters) ==
    /\ filters.epf_number # ""
       => substring(as_bytes(filters.epf_number), as_bytes(e.epf_number))
    /\ filters.department # "" => e.department = filters.department
    /\ filters.transport_route # "" => e.transport_route = filters.transport_route
    /\ filters.working_status # "" => e.working_status = filters.working_status

\* a list of employees is in ascending epf_number order
ascending(list) ==
    \A i \in 1..Len(list) : \A j \in (i + 1)..Len(list) :
        bytes_less(as_bytes(list[i].epf_number), as_bytes(list[j].epf_number))

(* C14: get_employees returns exactly the employees that satisfy the        *)
(* conjunction of the non-empty filter criteria (exact match on department, *)
(* transport_route and working_status; substring match on epf_number),      *)
(* ordered by ascending epf_number.                                         *)
C14_ListIsFilterConjunction ==
    [][ \A filters \in EmployeeFilters :
           get_employees(filters)
           => LET list == last'.value[1] IN
              /\ {list[i] : i \in 1..Len(list)}
                 = {e \in employees : satisfies(e, filters)}
              /\ ascending(list) ]_vars

\* the employees whose working_status is neither 'active' nor 'resign'
OtherStatus == {e \in employees : e.working_status \notin {"active", "resign"}}

(* C16: in every result of get_dashboard_stats, total_employees equals the  *)
(* number of employee rows, and active_employees + resigned_employees +     *)
(* (employees with any other working_status) equals total_employees.        *)
C16_DashboardCountsAddUp ==
    last.op = "get_dashboard_stats"
    => LET stats == last.value[1] IN
       /\ stats.total_employees = Cardinality(employees)
       /\ stats.active_employees + stats.resigned_employees
          + Cardinality(OtherStatus) = stats.total_employees

\* the dashboard was read with an active, a resigned and a third-status row
C16_Witness ==
    /\ last.op = "get_dashboard_stats"
    /\ last.value[1].active_employees = 1
    /\ last.value[1].resigned_employees = 1
    /\ Cardinality(OtherStatus) = 1

(* C15: export/import round trip: export_database writes into F the         *)
(* employees and users tables the application serves at that moment, and    *)
(* after import_database(F), whatever employee or user mutations came in    *)
(* between, the application serves the employees and users rows of F.       *)
C15_ImportServesExport ==
    [][ /\ export_database("F")
           => /\ files'.F[1].employees = employees
              /\ files'.F[1].users = users
        /\ (import_database("F") /\ last'.result = Ok)
           => /\ employees' = files.F[1].employees
              /\ users' = files.F[1].users ]_vars

(* C19: permission sets given at user creation take effect in full: after   *)
(* create_user succeeds for user u with explicit permission set P (or, with *)
(* none given, P = the role's set), the row of u holds P in all eleven      *)
(* capabilities, can_backup_database and can_view_audit_logs included, and  *)
(* a successful login of u yields a session with the capabilities its row   *)
(* holds.                                                                   *)
C19_CreatedPermissionsTakeEffect ==
    [][ /\ \A request \in CreateUserRequests :
              (create_user(request) /\ last'.result = Ok)
              => \A u \in users' :
                    u.username = request.username
                    => u.permissions
                       = permissions_or_role(request.permissions, request.role)
        /\ \A request \in LoginRequests :
              (login(request) /\ last'.result = Ok)
              => \A u \in users :
                    u.username = request.username
                    => current_user'[1].permissions = u.permissions ]_vars

\* login's conditions for accepting a password for a row
can_log_in(u, password) ==
    /\ LoginQueryPrepares(schema)
    /\ u.is_active
    /\ verify_password(password, u.password_hash)

(* C20: bootstrap: init_db on an empty users table creates exactly one      *)
(* user, with username admin and role admin, holding the admin row of the   *)
(* role table (all eleven capabilities) and able to log in; when the users  *)
(* table is non-empty, init_db creates no user.                             *)
C20_Bootstrap ==
    /\ Cardinality(users) = 1
    /\ \A u \in users :
          /\ u.username = "admin"
          /\ u.role = "admin"
          /\ u.permissions = from_role("admin")
          /\ \A c \in Capabilities : u.permissions[c]
          /\ can_log_in(u, "admin123")
    /\ [][ (restart /\ users # {})
           => \E content \in DiskImages :
                 {u.id : u \in users'} = {u.id : u \in content.users} ]_vars

\* thread t holds both mutexes
HoldsBoth(t) == lock.db = t /\ lock.current_user = t

can_step(t) ==
    /\ pc[t] # Idle
    /\ at_step(t) \in {"lock db", "lock current_user"}
       => lock[mutex_of(at_step(t))] = 0

\* some thread is inside a command and none of them can step
Deadlock == (\E t \in Threads : pc[t] # Idle) /\ ~\E t \in Threads : can_step(t)

UserMutationOps == UserManagementOps \cup {"change_own_password"}

(* C21: every state-mutating request that succeeds emits an audit log       *)
(* entry after its database operation: each successful create_user,         *)
(* update_user, delete_user, reset_user_password and change_own_password    *)
(* appends one new audit entry, of entity_type USER, before it returns.     *)
C21_UserMutationsAudited ==
    [][ (last'.op \in UserMutationOps /\ last'.result = Ok)
        => (Appended /\ NewEntry.entity_type = "USER") ]_vars

\* the error a command gives when nobody is logged in
Unauthenticated == {"Not logged in"}

(* C22: the gate distinguishes its two failures: create_user,               *)
(* get_all_users, update_user, delete_user and reset_user_password fail     *)
(* with Unauthenticated when there is no session and with PermissionDenied  *)
(* when the session lacks can_manage_users, and the two are never the same  *)
(* value.                                                                   *)
C22_GateDistinguishesFailures ==
    /\ Unauthenticated \cap PermissionDenied = {}
    /\ [][ (last'.op \in GatedOps)
           => /\ current_user = None => last'.result \in Unauthenticated
              /\ (current_user # None /\ ~Holds(current_user, "can_manage_users"))
                 => last'.result \in PermissionDenied ]_vars

\* the error of a role outside the enumeration
ValidationError == {"Invalid role specified"}

(* C23: in every reachable state the role of every stored user is one of    *)
(* admin, hr_manager, hr_staff, viewer, custom: create_user and update_user *)
(* with any other role fail with ValidationError and leave the users table  *)
(* unchanged.                                                               *)
C23_StoredRolesValid ==
    /\ [](\A u \in users : u.role \in valid_roles)
    /\ [][ /\ \A request \in RoleCreateUserRequests :
                 (create_user(request) /\ request.role \notin valid_roles
                  /\ has_manage_users(current_user))
                 => (last'.result \in ValidationError /\ users' = users)
           /\ \A request \in RoleUpdateUserRequests :
                 (update_user(request) /\ request.role \notin valid_roles
                  /\ has_manage_users(current_user))
                 => (last'.result \in ValidationError /\ users' = users) ]_vars

(* C24: self-delete protection prevents lockout: after any sequence of      *)
(* login, logout, create_user, update_user, delete_user and password        *)
(* operations from the bootstrap state there is always at least one stored  *)
(* user that is active and has can_manage_users.                            *)
C24_SomeActiveManagerRemains ==
    \E u \in users : u.is_active /\ u.permissions.can_manage_users

(* C25: update and delete on a missing key are silent no-ops:               *)
(* update_employee and delete_employee with an epf_number not in the table, *)
(* and update_user, delete_user and reset_user_password (called by a        *)
(* session that passes their gate) with a user id not in the table, return  *)
(* success and leave the employees and users tables unchanged.              *)
C25_MissingKeyIsNoOp ==
    [][ LET NoOp == last'.result = Ok /\ employees' = employees /\ users' = users
            Gate == has_manage_users(current_user) /\ UpdateUserPrepares(schema)
        IN
        /\ \A employee \in EmployeeRequests :
              (update_employee(employee) /\ Stored(employee.epf_number) = {})
              => NoOp
        /\ \A epf_number \in EpfNumbers :
              (delete_employee(epf_number) /\ Stored(epf_number) = {}) => NoOp
        /\ \A request \in UpdateUserRequests :
              (update_user(request) /\ UserById(request.user_id) = {} /\ Gate)
              => NoOp
        /\ \A user_id \in 1..MaxUserId :
              (delete_user(user_id) /\ UserById(user_id) = {} /\ Gate) => NoOp
        /\ \A user_id \in 1..MaxUserId, new_password \in Passwords :
              (reset_user_password(user_id, new_password)
               /\ UserById(user_id) = {} /\ Gate) => NoOp ]_vars

\* update_user succeeded on a user id that is not in the table, with an
\* employee stored
C25_Witness ==
    /\ last.op = "update_user"
    /\ last.result = Ok
    /\ UserById(2) = {}
    /\ Stored("E1") # {}

\* update_employee succeeded on a key that is not in the table
C25_WitnessEmployee ==
    /\ last.op = "update_employee"
    /\ last.result = Ok
    /\ employees = {}

\* sequence a is a prefix of sequence b
IsPrefix(a, b) == Len(a) <= Len(b) /\ SubSeq(b, 1, Len(a)) = a

(* C26: the audit log is append-only: across any sequence of operations the *)
(* sequence of audit entries in an earlier state is a prefix of the         *)
(* sequence in every later state; no operation modifies or removes an       *)
(* existing entry.                                                          *)
C26_AuditLogAppendOnly ==
    [][ IsPrefix(audit_logs, audit_logs') ]_vars

(* C26, amended: the audit log is append-only under every operation but     *)
(* import_database and the restart it asks for, which replace the whole     *)
(* database, the audit log with it, by the imported file.                   *)
C26_AuditLogAppendOnlyButImport ==
    [][ last'.op \notin {"import_database", "main"}
        => IsPrefix(audit_logs, audit_logs') ]_vars

\* the log has grown by a second entry, on a delete, after the database was
\* exported with entries in it
C26_Witness ==
    /\ last.op = "delete_employee"
    /\ Len(audit_logs) = 2
    /\ files.F # None
    /\ files.F[1].audit_logs # << >>

(* C27: change_own_password(old, new) changes a password only for the       *)
(* logged-in user and only with proof of the old one: with no session it    *)
(* fails; with a session whose user's stored hash does not verify against   *)
(* old it fails; in both cases every stored password hash is unchanged; on  *)
(* success only the session user's hash changes, to hash(new), and no other *)
(* user's row is touched.                                                   *)
C27_ChangeOwnPasswordOnly ==
    [][ \A old \in HashedPasswords, new \in HashedPasswords :
           change_own_password(old, new)
           => /\ current_user = None => last'.result # Ok
              /\ (current_user # None /\ hash_password(old) \notin SessionHash)
                 => last'.result # Ok
              /\ last'.result # Ok
                 => \A u \in users : \E v \in users' :
                       v.id = u.id /\ v.password_hash = u.password_hash
              /\ last'.result = Ok
                 => /\ current_user # None
                    /\ hash_password(old) \in SessionHash
                    /\ users' = {IF u.id = current_user[1].user_id
                                 THEN [u EXCEPT !.password_hash = hash_password(new)]
                                 ELSE u : u \in users} ]_vars

\* bob has changed his own password while the administrator's row, with
\* another hash, is stored next to his
C27_Witness ==
    /\ last.op = "change_own_password"
    /\ last.result = Ok
    /\ current_user # None /\ current_user[1].username = "bob"
    /\ SessionHash = {hash_password("wp")}
    /\ \E u \in users : u.username = "admin"
                        /\ u.password_hash = hash_password("admin123")

\* the session's user_id is the id of a stored user, and some user is stored
SessionUserStored ==
    /\ users # {}
    /\ current_user # None => UserById(current_user[1].user_id) # {}

UserStatement(t) == delete_user_statement(t) \/ reset_user_password_statement(t)

(* C29: authorization and mutation are atomic with respect to the session:  *)
(* under any interleaving of concurrent operations a user-management        *)
(* mutation is applied to the users table only while the session that       *)
(* passed its permission check is still the current session, and            *)
(* delete_user never removes the user who is the current session's user at  *)
(* the moment of the write.                                                 *)
C29_GateAndWriteAtomic ==
    [][ \A t \in Threads :
           /\ UserStatement(t) => current_user = pc[t].session
           /\ delete_user_statement(t)
              => (current_user = None
                  \/ current_user[1].user_id # pc[t].user_id) ]_vars

\* the nine permission columns init_db's UPDATE names
BaseCapabilities ==
    {"can_view_employees", "can_add_employees", "can_edit_employees",
     "can_delete_employees", "can_manage_users", "can_view_all_departments",
     "can_export_data", "can_view_reports", "can_manage_settings"}

\* every stored admin holds the nine
AdminsHoldBase ==
    \A u \in users : u.role = "admin" => \A c \in BaseCapabilities : u.permissions[c]

(* C30: after every startup (init_db) every stored user whose role is admin *)
(* has the nine base capabilities set, even if an explicit per-user         *)
(* override had cleared them before the restart; the permission columns of  *)
(* users with any other role are left unchanged by startup.                 *)
C30_StartupRestoresAdmins ==
    /\ AdminsHoldBase
    /\ [][ restart
           => /\ AdminsHoldBase'
              /\ \A u \in users : u.role # "admin" => u \in users'
              /\ {u.id : u \in users'} = {u.id : u \in users} ]_vars

\* after a restart: an admin created with an explicit set that lacked
\* can_add_employees holds it, next to the flags the UPDATE does not name
C30_Witness ==
    /\ last.op = "main"
    /\ \E u \in users :
          /\ u.username = "bob" /\ u.role = "admin"
          /\ u.permissions.can_add_employees
          /\ u.permissions.can_backup_database
          /\ ~u.permissions.can_view_audit_logs

====
